---- MODULE Spec2Model ----
(***************************************************************************)
(* Keyframe sampling of video-summary-mcp-server: extract_keyframes of     *)
(* src/frame_extractor.py as a state machine, one call per behaviour.      *)
(*                                                                         *)
(* Real numbers.  Times and the sampling interval are counted in half      *)
(* seconds and the frame rate in half frames per second, so the value 3    *)
(* of start_time stands for 1.5 s and the value 3 of fps for 1.5 frames/s. *)
(* A product time * fps is therefore a count of quarter frames, and        *)
(* int(time * fps) is that count divided by 4, rounded towards zero.       *)
(* The duration total_frames / fps is kept as an exact fraction <<n, d>>.  *)
(* Every value below is a dyadic rational or the quotient of two small     *)
(* integers; for all of them IEEE-754 double arithmetic gives the same     *)
(* truncations and comparisons as the exact arithmetic used here.          *)
(***************************************************************************)
EXTENDS Integers, Sequences, FiniteSets, TLC

\* Bounds of the model (half frames per second, frames, half seconds).
MaxFps == 4
MaxFrames == 5
MaxTime == 5
MaxInterval == 4
MaxWidth == 4
MaxHeight == 4
MaxCalls == 2
MaxImages == 2

\* An optional argument: None when omitted, Some(x) when given.
None == <<>>

Some(x) == <<x>>

\* No exception raised (so far).
NoError == [kind |-> "none"]

VARIABLES
    tool,            \* an MCP tool call: its arguments, locals and outcome
    job,             \* an orchestrator call: function, style, model, images,
                     \* and how the two remote transports will answer
    opc,             \* position of the orchestrator call
    prompt,          \* local prompt
    attempts,        \* the create() calls made on the OpenAI client, in order
    result,          \* what the orchestrator call returned or raised
    call,            \* number of the current call of extract_keyframes
    previous,        \* what the previous call ended with
    source,          \* the file behind video_path: what cv2 reports and delivers
    args,            \* the arguments of the call
    pc,              \* position of the call in extract_keyframes
    cap,             \* the VideoCapture handle: "unopened", "open", "released"
    pos,             \* the decoder's read cursor (CAP_PROP_POS_FRAMES)
    fps,             \* local fps
    total_frames,    \* local total_frames
    duration,        \* local duration, a fraction <<n, d>> of half seconds
    start_time,      \* local start_time after defaulting, a fraction
    end_time,        \* local end_time after defaulting, a fraction
    start_frame,     \* local start_frame
    end_frame,       \* local end_frame
    frame_interval,  \* local frame_interval
    frame_id,        \* local frame_id
    frames,          \* local frames: the decoder index of every appended frame
    shapes,          \* local frames: <<width, height>> of every appended frame
    original_width,  \* local original_width
    original_height, \* local original_height
    error,           \* the exception the call raised, or NoError
    propReads,       \* number of cap.get calls made
    seeks,           \* number of cap.set(CAP_PROP_POS_FRAMES, ..) calls made
    reads,           \* number of cap.read calls made
    failedReads,     \* decoder indices at which cap.read returned ret = False
    releases         \* number of cap.release calls made

vars == <<tool, job, opc, prompt, attempts, result, call, previous, source, args, pc, cap, pos, fps, total_frames, duration, start_time,
          end_time, start_frame, end_frame, frame_interval, frame_id, frames,
          shapes, original_width, original_height, error, propReads, seeks, reads, failedReads, releases>>

caller == <<call, previous>>

core == <<job, opc, prompt, attempts, result>>

orch == <<tool, core>>

locals == <<fps, total_frames, duration, start_time, end_time, start_frame,
            end_frame, frame_interval, frame_id, frames, shapes,
            original_width, original_height>>

----------------------------------------------------------------------------
\* Fractions <<n, d>> with d > 0.

Frac(n, d) == <<n, d>>

\* a < b
FracLess(a, b) == a[1] * b[2] < b[1] * a[2]

\* a <= b
FracLeq(a, b) == a[1] * b[2] <= b[1] * a[2]

\* Python's int(x): truncation towards zero of the quotient n / d, d > 0.
IntTrunc(n, d) == IF n >= 0 THEN n \div d ELSE -((-n) \div d)

\* Format2f with the digits cut off instead of rounded.
Format2fTruncated(x) == (x[1] * 100) \div (x[2] * 2)

\* f"{x:.2f}": the value in hundredths of a second, rounded to nearest.  The
\* argument is in half seconds, so x seconds = n / (2 d).  (A tie needs a
\* denominator divisible by 8 and is then exact in binary: round-half-even.)
Format2f(x) ==
    LET n == x[1] * 100
        d == x[2] * 2
        q == n \div d
        r == n % d
    IN  IF 2 * r < d THEN q
        ELSE IF 2 * r > d THEN q + 1
        ELSE IF q % 2 = 0 THEN q ELSE q + 1

----------------------------------------------------------------------------
\* The sources and calls explored.

\* A source: whether cv2 can open it, the frame rate and frame count its
\* container reports, and the number of frames the decoder can deliver.
\* and the pixel size of its frames.
SmallSources ==
    [openable : BOOLEAN, fps : 0..MaxFps, frame_count : 0..MaxFrames,
     decodable : 0..MaxFrames, width : {MaxWidth}, height : {MaxHeight}]

SmallArgs ==
    [start_time : {None} \cup {Some(t) : t \in -1..MaxTime},
     end_time : {None} \cup {Some(t) : t \in -1..(MaxTime + 1)},
     interval_sec : 1..MaxInterval,
     max_width : {Some(MaxWidth - 1)}]

\* Sources of every small frame size (1.0 fps, two frames), sampled whole
\* once a second with every width cap.
SizedSources ==
    [openable : {TRUE}, fps : {2}, frame_count : {2}, decodable : {2},
     width : 1..MaxWidth, height : 1..MaxHeight]

SizedArgs ==
    [start_time : {None}, end_time : {None}, interval_sec : {2},
     max_width : {None} \cup {Some(m) : m \in 1..(MaxWidth + 1)}]

\* The end-to-end scenario: 30 fps, 20 s (600 frames), window 5.0 .. 15.0 s,
\* interval 2 s.
ScenarioSource ==
    [openable |-> TRUE, fps |-> 2 * 30, frame_count |-> 600, decodable |-> 600,
     width |-> 1920, height |-> 1080]

ScenarioArgs ==
    [start_time |-> Some(2 * 5), end_time |-> Some(2 * 15),
     interval_sec |-> 2 * 2, max_width |-> Some(512)]

IsScenario == source = ScenarioSource /\ args = ScenarioArgs

\* The end-beyond-duration example: a 10.0 s source (0.5 fps, 5 frames) asked
\* for end_time = 15.0.
ExampleSource ==
    [openable |-> TRUE, fps |-> 1, frame_count |-> 5, decodable |-> 5,
     width |-> 1920, height |-> 1080]

ExampleArgs ==
    [start_time |-> None, end_time |-> Some(2 * 15), interval_sec |-> 2,
     max_width |-> Some(512)]

IsExample == source = ExampleSource /\ args = ExampleArgs

\* What a call ends with: returned or raised, the frames, the exception.
Outcome ==
    [pc |-> pc, frames |-> frames, shapes |-> shapes, error |-> error]

\* No orchestrator call is in progress.
NoJob ==
    [fn |-> "none", style |-> "short", custom |-> "none", model |-> "none",
     images |-> 0,
     structured |-> "ok", legacy |-> "ok"]

NoResult == [status |-> "none"]

\* No tool call is in progress.
NoTool == [name |-> "none"]

OrchIdle ==
    /\ tool = NoTool
    /\ job = NoJob
    /\ opc = "idle"
    /\ prompt = ""
    /\ attempts = <<>>
    /\ result = NoResult

Init ==
    /\ OrchIdle
    /\ call = 1
    /\ previous = [pc |-> "none", frames |-> <<>>, shapes |-> <<>>,
                   error |-> NoError]
    /\ \/ source \in SmallSources /\ args \in SmallArgs
       \/ source \in SizedSources /\ args \in SizedArgs
       \/ source = ScenarioSource /\ args = ScenarioArgs
       \/ source = ExampleSource /\ args = ExampleArgs
    /\ pc = "call"
    /\ cap = "unopened"
    /\ pos = 0
    /\ fps = 0
    /\ total_frames = 0
    /\ duration = Frac(0, 1)
    /\ start_time = Frac(0, 1)
    /\ end_time = Frac(0, 1)
    /\ start_frame = 0
    /\ end_frame = 0
    /\ frame_interval = 0
    /\ frame_id = 0
    /\ frames = <<>>
    /\ shapes = <<>>
    /\ original_width = 0
    /\ original_height = 0
    /\ error = NoError
    /\ propReads = 0
    /\ seeks = 0
    /\ reads = 0
    /\ failedReads = {}
    /\ releases = 0

----------------------------------------------------------------------------
\* extract_keyframes, statement by statement.

\* cap = cv2.VideoCapture(video_path); if not cap.isOpened(): raise ValueError
OpenFails ==
    /\ pc = "call"
    /\ ~source.openable
    /\ pc' = "raised"
    /\ error' = [kind |-> "CannotOpen"]
    /\ UNCHANGED <<orch, caller, source, args, cap, pos, locals, propReads, seeks, reads,
                   failedReads, releases>>

\* Open without the isOpened() check.
OpenUnchecked ==
    /\ pc = "call"
    /\ cap' = "open"
    /\ pos' = 0
    /\ pc' = "opened"
    /\ UNCHANGED <<orch, caller, source, args, locals, error, propReads, seeks, reads,
                   failedReads, releases>>

Open ==
    /\ pc = "call"
    /\ source.openable
    /\ cap' = "open"
    /\ pos' = 0
    /\ pc' = "opened"
    /\ UNCHANGED <<orch, caller, source, args, locals, error, propReads, seeks, reads,
                   failedReads, releases>>

\* Duration taking the frame count for the duration when fps is 0.
DurationOfFrameCount(n, f) ==
    IF f > 0 THEN Frac(2 * 2 * n, f) ELSE Frac(2 * n, 1)

\* duration = total_frames / fps if fps > 0 else 0
Duration(n, f) == IF f > 0 THEN Frac(2 * 2 * n, f) ELSE Frac(0, 1)

\* start_time = 0.0 if omitted
ResolveStart(s) == IF s = None THEN Frac(0, 1) ELSE Frac(s[1], 1)

\* end_time = duration if omitted
ResolveEnd(e, d) == IF e = None THEN d ELSE Frac(e[1], 1)

\* fps, total_frames, duration and the window defaults (lines 29-37)
ReadProperties ==
    /\ pc = "opened"
    /\ fps' = source.fps
    /\ total_frames' = source.frame_count
    /\ duration' = Duration(source.frame_count, source.fps)
    /\ start_time' = ResolveStart(args.start_time)
    /\ end_time' = ResolveEnd(args.end_time, duration')
    /\ propReads' = propReads + 2
    /\ pc' = "validate"
    /\ UNCHANGED <<orch, caller, source, args, cap, pos, start_frame, end_frame,
                   frame_interval, frame_id, frames, shapes, original_width,
                   original_height, error, seeks, reads, failedReads,
                   releases>>

\* start_time < 0
StartIsNegative(s) == FracLess(s, Frac(0, 1))

\* end_time > duration
EndExceedsDuration(e, d) == FracLess(d, e)

\* StartNotBeforeEnd with > for >=.
StartAfterEnd(s, e) == FracLess(e, s)

\* start_time >= end_time
StartNotBeforeEnd(s, e) == FracLeq(e, s)

\* if start_time < 0: raise ValueError(f"Start time cannot be negative: ...")
RaiseNegativeStart ==
    /\ pc = "validate"
    /\ StartIsNegative(start_time)
    /\ pc' = "raised"
    /\ error' = [kind |-> "NegativeStart", start |-> start_time]
    /\ UNCHANGED <<orch, caller, source, args, cap, pos, locals, propReads, seeks, reads,
                   failedReads, releases>>

\* RaiseEndExceedsDuration tested before the negative start.
RaiseEndExceedsDurationFirst ==
    /\ pc = "validate"
    /\ EndExceedsDuration(end_time, duration)
    /\ pc' = "raised"
    /\ error' = [kind |-> "EndExceedsDuration", end |-> end_time,
                 duration2f |-> Format2f(duration)]
    /\ UNCHANGED <<orch, caller, source, args, cap, pos, locals, propReads, seeks, reads,
                   failedReads, releases>>

\* if end_time > duration: raise ValueError(f"End time (..s) exceeds video
\* duration ({duration:.2f}s)")
RaiseEndExceedsDuration ==
    /\ pc = "validate"
    /\ ~StartIsNegative(start_time)
    /\ EndExceedsDuration(end_time, duration)
    /\ pc' = "raised"
    /\ error' = [kind |-> "EndExceedsDuration", end |-> end_time,
                 duration2f |-> Format2f(duration)]
    /\ UNCHANGED <<orch, caller, source, args, cap, pos, locals, propReads, seeks, reads,
                   failedReads, releases>>

\* if start_time >= end_time: raise ValueError(f"Start time (..s) must be
\* less than end time (..s)")
RaiseStartNotBeforeEnd ==
    /\ pc = "validate"
    /\ ~StartIsNegative(start_time)
    /\ ~EndExceedsDuration(end_time, duration)
    /\ StartNotBeforeEnd(start_time, end_time)
    /\ pc' = "raised"
    /\ error' = [kind |-> "StartNotBeforeEnd", start |-> start_time,
                 end |-> end_time]
    /\ UNCHANGED <<orch, caller, source, args, cap, pos, locals, propReads, seeks, reads,
                   failedReads, releases>>

\* int(t * fps) for a time t (a fraction of half seconds) and fps f
ToFrame(t, f) == IntTrunc(t[1] * f, 2 * 2 * t[2])

\* int(fps * interval_sec)
FrameInterval(f, i) == IntTrunc(f * i, 2 * 2)

\* start_frame, end_frame, frame_interval (lines 47-49)
ConvertTimes ==
    /\ pc = "validate"
    /\ ~StartIsNegative(start_time)
    /\ ~EndExceedsDuration(end_time, duration)
    /\ ~StartNotBeforeEnd(start_time, end_time)
    /\ start_frame' = ToFrame(start_time, fps)
    /\ end_frame' = ToFrame(end_time, fps)
    /\ frame_interval' = FrameInterval(fps, args.interval_sec)
    /\ pc' = "seek"
    /\ UNCHANGED <<orch, caller, source, args, cap, pos, fps, total_frames, duration,
                   start_time, end_time, frame_id, frames, shapes,
                   original_width, original_height, error, propReads, seeks,
                   reads, failedReads, releases>>

\* SeekTarget when the seek is left out: the cursor stays on frame 0.
SeekTargetRewound(target) == 0

\* The cursor after cap.set(cv2.CAP_PROP_POS_FRAMES, target)
SeekTarget(target) == target

\* Seek without frames = []: the list outlives the call.
SeekKeepingFrames ==
    /\ pc = "seek"
    /\ pos' = start_frame
    /\ seeks' = seeks + 1
    /\ frame_id' = start_frame
    /\ original_width' = source.width
    /\ original_height' = source.height
    /\ propReads' = propReads + 2
    /\ pc' = "loop"
    /\ UNCHANGED <<orch, caller, source, args, cap, fps, total_frames, duration,
                   start_time, end_time, start_frame, end_frame,
                   frame_interval, frames, shapes, error, reads, failedReads,
                   releases>>

\* cap.set(CAP_PROP_POS_FRAMES, start_frame); frames = []; frame_id =
\* start_frame; original_width/height = cap.get(..) (lines 52-57)
Seek ==
    /\ pc = "seek"
    /\ pos' = SeekTarget(start_frame)
    /\ seeks' = seeks + 1
    /\ frames' = <<>>
    /\ shapes' = <<>>
    /\ frame_id' = start_frame
    /\ original_width' = source.width
    /\ original_height' = source.height
    /\ propReads' = propReads + 2
    /\ pc' = "loop"
    /\ UNCHANGED <<orch, caller, source, args, cap, fps, total_frames, duration, start_time,
                   end_time, start_frame, end_frame, frame_interval, error,
                   reads, failedReads, releases>>

\* The while condition: frame_id <= end_frame
InWindow(id, last) == id <= last

\* cap.read() delivers a frame iff the cursor is on a decodable frame
CanRead == pos >= 0 /\ pos < source.decodable

\* The sampling test: frame_id % frame_interval == 0 (frame_interval # 0)
IsSampled(id, step) == id % step = 0

\* ReadBreaks raising on a failed read instead of leaving the loop.
ReadBreaksRaising ==
    /\ pc = "loop"
    /\ frame_id <= end_frame
    /\ ~(pos >= 0 /\ pos < source.decodable)
    /\ reads' = reads + 1
    /\ failedReads' = failedReads \cup {pos}
    /\ pc' = "raised"
    /\ error' = [kind |-> "DecodeFailed"]
    /\ UNCHANGED <<orch, caller, source, args, cap, pos, locals, propReads, seeks,
                   releases>>

\* ret, frame = cap.read(); if not ret: break
ReadBreaks ==
    /\ pc = "loop"
    /\ InWindow(frame_id, end_frame)
    /\ ~CanRead
    /\ reads' = reads + 1
    /\ failedReads' = failedReads \cup {pos}
    /\ pc' = "release"
    /\ UNCHANGED <<orch, caller, source, args, cap, pos, locals, error, propReads, seeks,
                   releases>>

\* frame_id % frame_interval with frame_interval = 0: ZeroDivisionError
ReadZeroDivision ==
    /\ pc = "loop"
    /\ InWindow(frame_id, end_frame)
    /\ CanRead
    /\ frame_interval = 0
    /\ reads' = reads + 1
    /\ pos' = pos + 1
    /\ pc' = "raised"
    /\ error' = [kind |-> "ZeroDivision"]
    /\ UNCHANGED <<orch, caller, source, args, cap, locals, propReads, seeks, failedReads,
                   releases>>

\* NeedsResize with the width test turned into "differs": upscales too.
NeedsResizeToAnyWidth(mw, w) == mw # None /\ w # mw[1]

\* max_width is not None and original_width > max_width
NeedsResize(mw, w) == mw # None /\ w > mw[1]

\* scale = max_width / original_width; int(original_height * scale).  (In
\* double arithmetic the product can fall just below a whole number, first
\* for 22 x 22 capped to 15, which gives 14; not for the sizes used here.)
NewHeight(h, mw, w) == IntTrunc(h * mw[1], w)

\* The <<width, height>> of the frame that is appended
EmittedShape(mw, w, h) ==
    IF NeedsResize(mw, w) THEN <<mw[1], NewHeight(h, mw, w)>> ELSE <<w, h>>

\* cv2.resize accepts a target size only if both sides are positive
ResizeAccepts(shape) == shape[1] > 0 /\ shape[2] > 0

\* One iteration whose cv2.resize raises cv2.error (new_height = 0)
ReadResizeFails ==
    /\ pc = "loop"
    /\ InWindow(frame_id, end_frame)
    /\ CanRead
    /\ frame_interval # 0
    /\ IsSampled(frame_id, frame_interval)
    /\ NeedsResize(args.max_width, original_width)
    /\ ~ResizeAccepts(EmittedShape(args.max_width, original_width,
                                   original_height))
    /\ reads' = reads + 1
    /\ pos' = pos + 1
    /\ pc' = "raised"
    /\ error' = [kind |-> "ResizeFailed"]
    /\ UNCHANGED <<orch, caller, source, args, cap, locals, propReads, seeks, failedReads,
                   releases>>

\* ReadEmit putting the frame at the front of the list.
ReadEmitPrepending ==
    /\ pc = "loop"
    /\ frame_id <= end_frame
    /\ pos >= 0 /\ pos < source.decodable
    /\ frame_interval # 0
    /\ frame_id % frame_interval = 0
    /\ reads' = reads + 1
    /\ pos' = pos + 1
    /\ frames' = <<pos>> \o frames
    /\ shapes' = <<<<original_width, original_height>>>> \o shapes
    /\ frame_id' = frame_id + 1
    /\ UNCHANGED <<orch, caller, source, args, pc, cap, fps, total_frames, duration,
                   start_time, end_time, start_frame, end_frame,
                   frame_interval, original_width, original_height, error,
                   propReads, seeks, failedReads, releases>>

\* One iteration that appends the frame just read (lines 60-71)
ReadEmit ==
    /\ pc = "loop"
    /\ InWindow(frame_id, end_frame)
    /\ CanRead
    /\ frame_interval # 0
    /\ IsSampled(frame_id, frame_interval)
    /\ NeedsResize(args.max_width, original_width) =>
           ResizeAccepts(EmittedShape(args.max_width, original_width,
                                      original_height))
    /\ reads' = reads + 1
    /\ pos' = pos + 1
    /\ frames' = Append(frames, pos)
    /\ shapes' = Append(shapes, EmittedShape(args.max_width, original_width,
                                             original_height))
    /\ frame_id' = frame_id + 1
    /\ UNCHANGED <<orch, caller, source, args, pc, cap, fps, total_frames, duration,
                   start_time, end_time, start_frame, end_frame,
                   frame_interval, original_width, original_height, error,
                   propReads, seeks, failedReads, releases>>

\* One iteration that drops the frame just read (lines 60-63, 71)
ReadSkip ==
    /\ pc = "loop"
    /\ InWindow(frame_id, end_frame)
    /\ CanRead
    /\ frame_interval # 0
    /\ ~IsSampled(frame_id, frame_interval)
    /\ reads' = reads + 1
    /\ pos' = pos + 1
    /\ frame_id' = frame_id + 1
    /\ UNCHANGED <<orch, caller, source, args, pc, cap, fps, total_frames, duration,
                   start_time, end_time, start_frame, end_frame,
                   frame_interval, frames, shapes, original_width,
                   original_height, error, propReads, seeks, failedReads,
                   releases>>

\* The while condition fails: frame_id > end_frame
LoopExit ==
    /\ pc = "loop"
    /\ ~InWindow(frame_id, end_frame)
    /\ pc' = "release"
    /\ UNCHANGED <<orch, caller, source, args, cap, pos, locals, error, propReads, seeks,
                   reads, failedReads, releases>>

\* cap.release(); return frames (lines 73-74)
ReleaseAndReturn ==
    /\ pc = "release"
    /\ cap' = "released"
    /\ releases' = releases + 1
    /\ pc' = "returned"
    /\ UNCHANGED <<orch, caller, source, args, pos, locals, error, propReads, seeks, reads,
                   failedReads>>

\* The caller calls extract_keyframes again with the same path and
\* arguments.  The new call has a new VideoCapture and new locals; what the
\* locals held is left in place, so the second call's result shows whether
\* every local is assigned before it is used.
CallAgain ==
    /\ pc \in {"returned", "raised"}
    /\ call < MaxCalls
    /\ call' = call + 1
    /\ previous' = Outcome
    /\ pc' = "call"
    /\ cap' = "unopened"
    /\ error' = NoError
    /\ propReads' = 0
    /\ seeks' = 0
    /\ reads' = 0
    /\ failedReads' = {}
    /\ releases' = 0
    /\ UNCHANGED <<orch, source, args, pos, locals>>

Next ==
    \/ CallAgain
    \/ OpenFails
    \/ Open
    \/ ReadProperties
    \/ RaiseNegativeStart
    \/ RaiseEndExceedsDuration
    \/ RaiseStartNotBeforeEnd
    \/ ConvertTimes
    \/ Seek
    \/ ReadBreaks
    \/ ReadZeroDivision
    \/ ReadResizeFails
    \/ ReadEmit
    \/ ReadSkip
    \/ LoopExit
    \/ ReleaseAndReturn

Spec == Init /\ [][Next]_vars

----------------------------------------------------------------------------
\* The quantities the properties speak of, computed from the source and the
\* arguments of the call alone (half seconds, half frames per second).

\* startTime: the given start, 0 when omitted
WindowStart == IF args.start_time = None THEN 0 ELSE args.start_time[1]

EndOmitted == args.end_time = None

\* 0 <= startTime < endTime <= duration, with duration = frameCount /
\* frameRate (0 when frameRate = 0) and endTime = duration when omitted
WindowValid ==
    LET f == source.fps
        n == source.frame_count
        s == WindowStart
    IN  /\ 0 <= s
        /\ IF EndOmitted
           THEN IF f > 0 THEN s * f < 4 * n ELSE s < 0
           ELSE LET e == args.end_time[1]
                IN  /\ s < e
                    /\ IF f > 0 THEN e * f <= 4 * n ELSE e <= 0

\* startFrame = floor(startTime * frameRate)
WindowStartFrame == (WindowStart * source.fps) \div 4

\* endFrame = floor(endTime * frameRate)
WindowEndFrame ==
    IF EndOmitted
    THEN IF source.fps > 0 THEN source.frame_count ELSE 0
    ELSE (args.end_time[1] * source.fps) \div 4

\* floor(frameRate * intervalSeconds)
RawFrameStep == (source.fps * args.interval_sec) \div 4

\* frameStep = floor(frameRate * intervalSeconds), at least 1
PlanFrameStep == IF RawFrameStep < 1 THEN 1 ELSE RawFrameStep

Emitted == {frames[k] : k \in 1..Len(frames)}

Finished == pc \in {"returned", "raised"}

\* C1: every frame emitted for a valid window has a sequential index between
\* startFrame = floor(startTime * frameRate) and endFrame = floor(endTime *
\* frameRate), both included.
C1_EmittedWithinWindow ==
    WindowValid =>
        \A i \in Emitted : WindowStartFrame <= i /\ i <= WindowEndFrame

C1_Witness ==
    /\ pc = "returned"
    /\ WindowValid
    /\ WindowStartFrame > 0
    /\ Len(frames) >= 2
    /\ frames[Len(frames)] = WindowEndFrame

\* C2: every emitted frame is a whole number of frame steps after the
\* window's first frame: (index - startFrame) mod frameStep = 0.
C2_SampledFromWindowStart ==
    WindowValid =>
        \A i \in Emitted : (i - WindowStartFrame) % PlanFrameStep = 0

\* C3: the 30 fps, 20 s source sampled over 5.0 .. 15.0 s every 2 s gives
\* startFrame 150, endFrame 450, frameStep 60 and exactly the frames 150,
\* 210, 270, 330, 390, 450 in that order.
C3_ScenarioFrames ==
    (IsScenario /\ Finished) =>
        /\ pc = "returned"
        /\ start_frame = 150
        /\ end_frame = 450
        /\ frame_interval = 60
        /\ frames = <<150, 210, 270, 330, 390, 450>>

\* C4: when frameStep exceeds endFrame - startFrame of a valid window (and
\* the decoder delivers every frame asked for), exactly one frame is
\* emitted, the one at startFrame.
C4_OneFrameWhenStepExceedsWindow ==
    (/\ Finished
     /\ source.openable
     /\ WindowValid
     /\ RawFrameStep > WindowEndFrame - WindowStartFrame
     /\ WindowEndFrame < source.decodable)
        => (pc = "returned" /\ frames = <<WindowStartFrame>>)

\* C5: frameStep is at least 1 for every positive frame rate and interval,
\* also when their product is below 1, and sampling then completes normally
\* and emits every frame of the window.
C5_FrameStepClamped ==
    /\ pc \in {"seek", "loop", "release", "returned"} => frame_interval >= 1
    /\ error.kind # "ZeroDivision"
    /\ (/\ Finished
        /\ source.openable
        /\ WindowValid
        /\ source.fps * args.interval_sec < 4
        /\ WindowEndFrame < source.decodable)
           => (/\ pc = "returned"
               /\ Emitted = WindowStartFrame..WindowEndFrame)

\* C6: once the source has been opened, every way the call ends (return,
\* early end of stream, each of the three window errors) has released the
\* handle: no call ends with the handle still open.
C6_HandleReleasedOnExit == Finished => cap # "open"

InvalidWindowKinds ==
    {"NegativeStart", "EndExceedsDuration", "StartNotBeforeEnd"}

\* C7: frames are returned only for a window with 0 <= startTime < endTime
\* <= duration; a call on an openable source with any other window fails
\* with one of the InvalidWindow errors, decodes nothing and returns nothing.
C7_FramesOnlyForValidWindow ==
    /\ pc = "returned" => WindowValid
    /\ (source.openable /\ ~WindowValid) =>
           /\ pc \in {"call", "opened", "validate", "raised"}
           /\ pc = "raised" => error.kind \in InvalidWindowKinds
           /\ reads = 0
           /\ seeks = 0
           /\ frames = <<>>

C7_Witness ==
    /\ pc = "raised"
    /\ source.openable
    /\ ~WindowValid
    /\ WindowStart >= 0
    /\ ~EndOmitted
    /\ WindowStart = args.end_time[1]
    /\ error.kind = "StartNotBeforeEnd"

\* The duration in hundredths of a second is within half a hundredth of h.
IsDurationToTwoDecimals(h) ==
    LET f == source.fps
        n == source.frame_count
    IN  IF f > 0
        THEN /\ 2 * (h * f - 200 * n) <= f
             /\ 2 * (200 * n - h * f) <= f
        ELSE h = 0

\* C8: each window error names its own condition and carries the offending
\* values: the negative start; the requested end together with the actual
\* duration (to two decimals); the start together with the end.
C8_ErrorsCarryOffendingValues ==
    (pc = "raised" /\ source.openable /\ ~WindowValid) =>
        LET s == WindowStart
        IN  IF s < 0
            THEN error = [kind |-> "NegativeStart", start |-> Frac(s, 1)]
            ELSE IF /\ ~EndOmitted
                    /\ IF source.fps > 0
                       THEN args.end_time[1] * source.fps
                                > 4 * source.frame_count
                       ELSE args.end_time[1] > 0
                 THEN /\ error.kind = "EndExceedsDuration"
                      /\ error.end = Frac(args.end_time[1], 1)
                      /\ IsDurationToTwoDecimals(error.duration2f)
                 ELSE /\ error.kind = "StartNotBeforeEnd"
                      /\ error.start = Frac(s, 1)
                      /\ FracLeq(error.end, error.start)
                      /\ IF EndOmitted
                         THEN error.end
                                  = Duration(source.frame_count, source.fps)
                         ELSE error.end = Frac(args.end_time[1], 1)

C8_Witness ==
    /\ IsExample
    /\ pc = "raised"
    /\ error = [kind |-> "EndExceedsDuration", end |-> Frac(2 * 15, 1),
                duration2f |-> 1000]

\* C9: a source that cannot be opened makes the call fail with the
\* cannot-open error before any property is read, any seek or any decode;
\* the call ends there (the open is not tried again) and returns no frame.
C9_OpenFailureIsTerminal ==
    ~source.openable =>
        /\ pc \in {"call", "raised"}
        /\ pc = "raised" => error.kind = "CannotOpen"
        /\ cap = "unopened"
        /\ propReads = 0
        /\ seeks = 0
        /\ reads = 0
        /\ frames = <<>>

C9_Witness ==
    /\ ~source.openable
    /\ pc = "raised"
    /\ error.kind = "CannotOpen"
    /\ cap = "unopened"

\* C10: a read that delivers no frame at an index i <= endFrame ends the
\* sampling: no frame is emitted for i, no error is raised, and the call
\* returns exactly the frames collected before i (possibly none).
C10_FailedReadEndsSampling ==
    /\ [](failedReads # {} =>
            /\ pc \in {"release", "returned"}
            /\ error = NoError
            /\ \A i \in failedReads :
                   /\ i <= WindowEndFrame
                   /\ \A j \in Emitted : j < i)
    /\ [][failedReads' # {} => frames' = frames /\ reads' <= reads + 1]_vars
    /\ [][(failedReads # {} /\ pc = "release") => pc' = "returned"]_vars

C10_Witness ==
    /\ pc = "returned"
    /\ failedReads # {}
    /\ Len(frames) >= 1
    /\ frame_id <= end_frame

\* The width cap applies: maxWidth is set and the native width exceeds it.
CapApplies == args.max_width # None /\ source.width > args.max_width[1]

\* C11: an emitted frame is resized iff maxWidth is set and the native
\* width is strictly greater, and its width is then maxWidth; otherwise
\* (maxWidth omitted, or maxWidth >= native width) it keeps its native width
\* and height.
C11_ResizePolicy ==
    /\ Len(shapes) = Len(frames)
    /\ \A k \in 1..Len(shapes) :
           IF CapApplies
           THEN shapes[k][1] = args.max_width[1]
           ELSE shapes[k] = <<source.width, source.height>>

C11_Witness ==
    /\ pc = "returned"
    /\ Len(shapes) >= 1
    /\ args.max_width # None
    /\ source.width < args.max_width[1]
    /\ shapes[1] = <<source.width, source.height>>

\* C12: the height of a resized frame is nativeHeight * maxWidth /
\* nativeWidth rounded to the nearest integer (not truncated).
C12_HeightRoundedToNearest ==
    CapApplies =>
        \A k \in 1..Len(shapes) :
            LET exact == source.height * args.max_width[1]
                got == shapes[k][2] * source.width
            IN  /\ 2 * (got - exact) <= source.width
                /\ 2 * (exact - got) <= source.width

\* C13: the returned frames are in strictly increasing order of their
\* source index (none twice, none out of order), and a call that returns,
\* also with an empty list, has raised no error.
C13_FramesStrictlyIncreasing ==
    /\ \A k \in 1..Len(frames) :
           \A l \in 1..Len(frames) : k < l => frames[k] < frames[l]
    /\ pc = "returned" => error = NoError

C13_Witness ==
    /\ pc = "returned"
    /\ Len(frames) >= 3
    /\ frames[1] < frames[2]
    /\ frames[2] < frames[3]

\* A call that returns nothing, successfully.
C13_EmptyResultReached ==
    /\ pc = "returned"
    /\ frames = <<>>
    /\ error = NoError

\* C14: a second call on the same source with the same arguments ends as
\* the first did: the same frame indices (and sizes), or the same error.
C14_SecondCallSameOutcome ==
    (call >= 2 /\ pc \in {"returned", "raised"}) => Outcome = previous

C14_Witness ==
    /\ call = 2
    /\ pc = "returned"
    /\ Len(frames) >= 2
    /\ previous.pc = "returned"
    /\ previous.frames = frames

BothOmitted == args.start_time = None /\ args.end_time = None

\* The decodable indices 0, frameStep, 2 * frameStep, ... below frameCount
WholeSourceSample ==
    {i \in 0..(source.frame_count - 1) :
        i < source.decodable /\ i % PlanFrameStep = 0}

\* C15: an omitted startTime resolves to 0 and an omitted endTime to the
\* duration frameCount / frameRate; with both omitted on a source with
\* positive frameRate and frameCount >= 1 the call succeeds and emits exactly
\* the decodable indices 0, frameStep, 2 * frameStep, ... below frameCount.
C15_DefaultsSampleWholeSource ==
    /\ pc \in {"validate", "seek", "loop", "release", "returned"} =>
           /\ args.start_time = None => start_time = Frac(0, 1)
           /\ (args.end_time = None /\ source.fps > 0) =>
                  end_time[1] * source.fps = 4 * source.frame_count * end_time[2]
    /\ (/\ pc \in {"returned", "raised"}
        /\ source.openable
        /\ BothOmitted
        /\ source.fps > 0
        /\ source.frame_count >= 1)
           => (pc = "returned" /\ Emitted = WholeSourceSample)

\* C16: for a valid window over a source that can deliver the frame at
\* startFrame, that frame is the first frame of the result (so the result is
\* not empty), whatever startFrame mod frameStep is.
C16_StartFrameEmittedFirst ==
    (/\ pc \in {"returned", "raised"}
     /\ source.openable
     /\ WindowValid
     /\ RawFrameStep >= 1
     /\ WindowStartFrame < source.decodable
     /\ error.kind # "ResizeFailed")
        => (/\ pc = "returned"
            /\ frames # <<>>
            /\ frames[1] = WindowStartFrame)

\* Seek once before the first decode, then decode in sequence: the k-th
\* successful decode of the call delivers index startFrame + k - 1.
SeekThenSequentialDecode ==
    /\ seeks <= 1
    /\ reads > 0 => seeks = 1
    /\ seeks = 1 =>
           pos = WindowStartFrame + reads - Cardinality(failedReads)
    /\ \A i \in failedReads : i >= WindowStartFrame

\* Nothing is done with the handle after its release.
ReleaseIsLast ==
    /\ releases <= 1
    /\ releases = 1 <=> cap = "released"
    /\ cap = "released" => pc = "returned"

\* C18: in every sampling call the source is opened once, positioned once on
\* startFrame by a seek before the first decode, decoded in sequence from
\* there, and released exactly once, after which nothing is sought or
\* decoded; no handle is left open when the call ends.
C18_DecoderProtocol ==
    /\ SeekThenSequentialDecode
    /\ ReleaseIsLast
    /\ (pc \in {"returned", "raised"} /\ source.openable) =>
           (cap = "released" /\ releases = 1)

----------------------------------------------------------------------------
\* The orchestrators: prompt selection (src/prompt.py) and the vision call
\* with its two transports (src/summarizer.py, src/video_analysis.py,
\* src/image_analysis.py).  An orchestrator call starts here once its frames
\* are encoded.

\* prompts of build_summary_prompt
SummaryPrompts ==
    [short |->
        "Summarize what happens in this video. Focus on actions, events, and salient changes. Keep it concise.",
     timeline |->
        "Summarize the video. Then produce a timeline of key events with approximate timestamps. Format as: [Time] - Event description",
     detailed |->
        "Provide a detailed summary of this video. Describe key actions, scene changes, objects, people, and timeline. Include as much context as possible.",
     technical |->
        "Provide a technical summary of this video. Focus on measurable actions, scene transitions, and objective observations. Use bullet points for clarity."]

\* prompts of build_analysis_prompt
AnalysisPrompts ==
    [short |->
        "Analyze this image. Describe what you see, including key objects, people, scenes, and any notable details. Keep it concise.",
     detailed |->
        "Provide a detailed analysis of this image. Describe all visible objects, people, scenes, colors, composition, lighting, and any other relevant details. Include context and potential interpretations.",
     technical |->
        "Provide a technical analysis of this image. Focus on objective observations: objects, colors, composition, lighting conditions, image quality, and measurable characteristics. Use bullet points for clarity.",
     descriptive |->
        "Provide a rich, descriptive analysis of this image. Describe the scene, atmosphere, mood, and visual elements in detail. Include artistic and aesthetic observations."]

\* build_summary_prompt with "detailed" as the default.
build_summary_prompt_detailed(style) ==
    IF style \in DOMAIN SummaryPrompts
    THEN SummaryPrompts[style]
    ELSE SummaryPrompts["detailed"]

\* prompts.get(style, prompts["short"])
build_summary_prompt(style) ==
    IF style \in DOMAIN SummaryPrompts
    THEN SummaryPrompts[style]
    ELSE SummaryPrompts["short"]

\* prompts.get(style, prompts["short"])
build_analysis_prompt(style) ==
    IF style \in DOMAIN AnalysisPrompts
    THEN AnalysisPrompts[style]
    ELSE AnalysisPrompts["short"]

\* f"Count how many {object_name} are visible in this image. ..."
build_count_prompt(object_name) ==
    "Count how many " \o object_name \o
    " are visible in this image. Be precise and careful. Respond with only a number, or '0' if none are found. If you cannot determine the exact count, provide your best estimate followed by a brief explanation."

\* The orchestrators, by module and function.
VideoOrchestrators ==
    {"summarizer.summarize_video", "summarizer.analyze_video_with_prompt",
     "video_analysis.summarize_video"}

ImageOrchestrators ==
    {"summarizer.analyze_image", "summarizer.count_items",
     "summarizer.analyze_image_with_prompt", "image_analysis.summarize_image"}

Orchestrators == VideoOrchestrators \cup ImageOrchestrators

\* The functions taking a style tag; the others take a prompt or an object
\* name.
StyledOrchestrators ==
    {"summarizer.summarize_video", "summarizer.analyze_image",
     "video_analysis.summarize_video", "image_analysis.summarize_image"}

\* summarizer.py fixes its models; the other two modules take a model.
HasModelParameter(fn) ==
    fn \in {"video_analysis.summarize_video", "image_analysis.summarize_image"}

StyleTags ==
    {"short", "timeline", "detailed", "technical", "descriptive", "cinematic",
     "SHORT", ""}

CustomTexts == {"What colour is the car?", "apples"}

Models == {"gpt-4.1", "gpt-4o", "gpt-4o-mini"}

\* How a transport answers: "ok"; "unsupported" (the client has no such
\* method: AttributeError); "error" (the call raises any other exception);
\* "malformed" (the call returns and reading the text of the response
\* raises).
Jobs ==
    {j \in [fn : Orchestrators, style : StyleTags,
            custom : CustomTexts \cup {"none"},
            model : Models \cup {"none"}, images : 0..MaxImages,
            structured : {"ok", "unsupported", "error", "malformed"},
            legacy : {"ok", "error", "malformed"}] :
        /\ HasModelParameter(j.fn) <=> j.model # "none"
        /\ j.fn \in StyledOrchestrators <=> j.custom = "none"
        /\ j.fn \notin StyledOrchestrators => j.style = "short"
        /\ j.fn \in ImageOrchestrators => j.images = 1}

\* prompt = build_summary_prompt(style) / build_analysis_prompt(style) /
\* build_count_prompt(object_name), or the custom_prompt argument
PromptFor(fn, style, custom) ==
    CASE fn \in {"summarizer.summarize_video",
                 "video_analysis.summarize_video"} ->
            build_summary_prompt(style)
      [] fn \in {"summarizer.analyze_image",
                 "image_analysis.summarize_image"} ->
            build_analysis_prompt(style)
      [] fn = "summarizer.count_items" -> build_count_prompt(custom)
      [] OTHER -> custom

\* model= of client.responses.create
StructuredModel(fn, model) == IF HasModelParameter(fn) THEN model ELSE "gpt-4.1"

\* model= of client.chat.completions.create
LegacyModel(fn, model) == IF HasModelParameter(fn) THEN model ELSE "gpt-4o"

\* StructuredRefused without the test of the model.
StructuredNeverRefused(fn, model) == FALSE

\* if model != "gpt-4.1": raise AttributeError (not in summarizer.py)
StructuredRefused(fn, model) == HasModelParameter(fn) /\ model # "gpt-4.1"

\* The text a remote call answers with.
Answer(transport, model) == <<"answer", transport, model>>

\* What the function returns for a remote answer: the text, and the model
\* named in the "[... Model: m]" suffix (none in summarizer.py).
Returned(fn, text, model) ==
    [status |-> "returned", text |-> text,
     named |-> IF HasModelParameter(fn) THEN Some(model) ELSE None]

sampler ==
    <<call, previous, source, args, pc, cap, pos, locals, error, propReads,
      seeks, reads, failedReads, releases>>

BuildPrompt ==
    /\ opc = "prompt"
    /\ prompt' = PromptFor(job.fn, job.style, job.custom)
    /\ opc' = "try"
    /\ UNCHANGED <<tool, sampler, job, attempts, result>>

\* raise AttributeError("Responses API only for gpt-4.1")
StructuredSkipped ==
    /\ opc = "try"
    /\ StructuredRefused(job.fn, job.model)
    /\ opc' = "except"
    /\ UNCHANGED <<tool, sampler, job, prompt, attempts, result>>

\* client.responses.create(...) answers; return its text
StructuredSucceeds ==
    /\ opc = "try"
    /\ ~StructuredRefused(job.fn, job.model)
    /\ job.structured = "ok"
    /\ LET m == StructuredModel(job.fn, job.model)
       IN  /\ attempts' = Append(attempts,
                  [transport |-> "responses", model |-> m,
                   images |-> job.images, prompt |-> prompt,
                   outcome |-> "ok"])
           /\ result' = Returned(job.fn, Answer("responses", m), m)
    /\ opc' = "returned"
    /\ UNCHANGED <<tool, sampler, job, prompt>>

\* client.responses.create(...) raises; except (AttributeError, Exception)
StructuredFails ==
    /\ opc = "try"
    /\ ~StructuredRefused(job.fn, job.model)
    /\ job.structured # "ok"
    /\ attempts' = Append(attempts,
           [transport |-> "responses",
            model |-> StructuredModel(job.fn, job.model),
            images |-> job.images, prompt |-> prompt,
            outcome |-> job.structured])
    /\ opc' = "except"
    /\ UNCHANGED <<tool, sampler, job, prompt, result>>

\* LegacySucceeds after a structured attempt that already answered.
LegacySucceedsAlways ==
    /\ opc \in {"except", "returned"}
    /\ job.legacy = "ok"
    /\ Len(attempts) < 2
    /\ LET m == LegacyModel(job.fn, job.model)
       IN  /\ attempts' = Append(attempts,
                  [transport |-> "chat.completions", model |-> m,
                   images |-> job.images, prompt |-> prompt,
                   outcome |-> "ok"])
           /\ result' = Returned(job.fn, Answer("chat.completions", m), m)
    /\ opc' = "returned"
    /\ UNCHANGED <<tool, sampler, job, prompt>>

\* client.chat.completions.create(...) answers; return its text
LegacySucceeds ==
    /\ opc = "except"
    /\ job.legacy = "ok"
    /\ LET m == LegacyModel(job.fn, job.model)
       IN  /\ attempts' = Append(attempts,
                  [transport |-> "chat.completions", model |-> m,
                   images |-> job.images, prompt |-> prompt,
                   outcome |-> "ok"])
           /\ result' = Returned(job.fn, Answer("chat.completions", m), m)
    /\ opc' = "returned"
    /\ UNCHANGED <<tool, sampler, job, prompt>>

\* client.chat.completions.create(...) raises: the exception leaves the
\* function
LegacyFails ==
    /\ opc = "except"
    /\ job.legacy # "ok"
    /\ attempts' = Append(attempts,
           [transport |-> "chat.completions",
            model |-> LegacyModel(job.fn, job.model),
            images |-> job.images, prompt |-> prompt,
            outcome |-> job.legacy])
    /\ result' = [status |-> "raised", from |-> "chat.completions"]
    /\ opc' = "raised"
    /\ UNCHANGED <<tool, sampler, job, prompt>>

\* The sampler is not running while an orchestrator call is followed.
SamplerIdle ==
    /\ call = 1
    /\ previous = [pc |-> "none", frames |-> <<>>, shapes |-> <<>>,
                   error |-> NoError]
    /\ source = ExampleSource
    /\ args = ExampleArgs
    /\ pc = "idle"
    /\ cap = "unopened"
    /\ pos = 0
    /\ fps = 0
    /\ total_frames = 0
    /\ duration = Frac(0, 1)
    /\ start_time = Frac(0, 1)
    /\ end_time = Frac(0, 1)
    /\ start_frame = 0
    /\ end_frame = 0
    /\ frame_interval = 0
    /\ frame_id = 0
    /\ frames = <<>>
    /\ shapes = <<>>
    /\ original_width = 0
    /\ original_height = 0
    /\ error = NoError
    /\ propReads = 0
    /\ seeks = 0
    /\ reads = 0
    /\ failedReads = {}
    /\ releases = 0

OrchInit ==
    /\ SamplerIdle
    /\ tool = NoTool
    /\ job \in Jobs
    /\ opc = "prompt"
    /\ prompt = ""
    /\ attempts = <<>>
    /\ result = NoResult

OrchNext ==
    \/ BuildPrompt
    \/ StructuredSkipped
    \/ StructuredSucceeds
    \/ StructuredFails
    \/ LegacySucceeds
    \/ LegacyFails

OrchSpec == OrchInit /\ [][OrchNext]_vars

----------------------------------------------------------------------------
\* Properties of the orchestrators, stated over OrchSpec.

\* The tags each prompt builder is said to recognise.
RecognisedTags(fn) ==
    IF fn \in ImageOrchestrators
    THEN {"short", "detailed", "technical", "descriptive"}
    ELSE {"short", "timeline", "detailed", "technical"}

\* The instruction each builder holds for a recognised tag.
TemplateOf(fn, tag) ==
    IF fn \in ImageOrchestrators THEN AnalysisPrompts[tag]
    ELSE SummaryPrompts[tag]

PromptBuilt == opc # "prompt" /\ job.fn \in StyledOrchestrators

OrchFinished == opc \in {"returned", "raised"}

\* C17: build_summary_prompt gives a distinct instruction for each of short,
\* timeline, detailed, technical and build_analysis_prompt for each of short,
\* detailed, technical, descriptive; every other tag (descriptive for
\* summaries and timeline for image analysis included) gives the instruction
\* of short, and an instruction is always produced.
C17_PromptTemplateSelection ==
    PromptBuilt =>
        LET R == RecognisedTags(job.fn)
        IN  /\ prompt # ""
            /\ job.style \in R =>
                   /\ prompt = TemplateOf(job.fn, job.style)
                   /\ \A t \in R \ {job.style} :
                          prompt # TemplateOf(job.fn, t)
            /\ job.style \notin R => prompt = TemplateOf(job.fn, "short")

\* A summary asked for with the tag descriptive has got the short
\* instruction.
C17_Witness ==
    /\ PromptBuilt
    /\ job.fn = "summarizer.summarize_video"
    /\ job.style = "descriptive"
    /\ prompt = SummaryPrompts["short"]

IsStructured(a) == a.transport = "responses"

IsLegacy(a) == a.transport = "chat.completions"

\* C19: a failed structured attempt, of whatever kind, is followed by exactly
\* one legacy attempt with the same frames and the same instruction; a legacy
\* answer is returned and the structured failure is not surfaced; a legacy
\* failure propagates to the caller; there are at most two remote attempts
\* per call and none on the legacy transport after a structured answer.
C19_FallbackProtocol ==
    /\ Len(attempts) <= 2
    /\ \A i \in 1..Len(attempts) :
          /\ IsStructured(attempts[i]) => i = 1
          /\ IsLegacy(attempts[i]) =>
                /\ i = Len(attempts)
                /\ i > 1 =>
                      /\ IsStructured(attempts[i - 1])
                      /\ attempts[i - 1].outcome # "ok"
                      /\ attempts[i].images = attempts[i - 1].images
                      /\ attempts[i].prompt = attempts[i - 1].prompt
    /\ OrchFinished =>
          /\ Len(attempts) >= 1
          /\ (IsStructured(attempts[1]) /\ attempts[1].outcome # "ok") =>
                Len(attempts) = 2 /\ IsLegacy(attempts[2])
          /\ LET last == attempts[Len(attempts)]
             IN  /\ (IsLegacy(last) /\ last.outcome = "ok") =>
                       /\ opc = "returned"
                       /\ result.status = "returned"
                       /\ result.text = Answer("chat.completions", last.model)
                 /\ (IsLegacy(last) /\ last.outcome # "ok") =>
                       /\ opc = "raised"
                       /\ result = [status |-> "raised",
                                    from |-> "chat.completions"]

\* A call has returned the legacy answer after its structured attempt raised.
C19_Witness ==
    /\ opc = "returned"
    /\ Len(attempts) = 2
    /\ attempts[1].outcome = "error"
    /\ result.status = "returned"
    /\ result.text = Answer("chat.completions", attempts[2].model)

\* C20: summarizer.py sends the structured attempt to gpt-4.1 and the
\* fallback to gpt-4o without naming the model in what it returns;
\* video_analysis.py and image_analysis.py attempt the structured transport
\* only for the model gpt-4.1, make exactly one remote call (legacy) for any
\* other model, and name in the returned suffix the model that was called.
C20_ModelsCalled ==
    /\ ~HasModelParameter(job.fn) =>
          /\ \A i \in 1..Len(attempts) :
                attempts[i].model =
                    IF IsStructured(attempts[i]) THEN "gpt-4.1" ELSE "gpt-4o"
          /\ result.status = "returned" => result.named = None
    /\ HasModelParameter(job.fn) =>
          /\ \A i \in 1..Len(attempts) :
                IsStructured(attempts[i]) => job.model = "gpt-4.1"
          /\ job.model # "gpt-4.1" =>
                /\ Len(attempts) <= 1
                /\ OrchFinished =>
                      Len(attempts) = 1 /\ IsLegacy(attempts[1])
          /\ result.status = "returned" =>
                LET last == attempts[Len(attempts)]
                IN  /\ last.outcome = "ok"
                    /\ result.named = Some(last.model)
                    /\ result.text = Answer(last.transport, last.model)

\* A summarizer.py call has returned the answer of gpt-4o after gpt-4.1
\* failed.
C20_Witness ==
    /\ ~HasModelParameter(job.fn)
    /\ job.fn # "none"
    /\ opc = "returned"
    /\ Len(attempts) = 2
    /\ attempts[1].model = "gpt-4.1"
    /\ attempts[2].model = "gpt-4o"
    /\ result.text = Answer("chat.completions", "gpt-4o")

----------------------------------------------------------------------------
\* The MCP tools summarize_video and analyze_video_with_prompt
\* (src/server.py), which convert their arguments, fill in the defaults and
\* delegate to the function of the same name in src/summarizer.py.

\* interval_sec if interval_sec is not None else 10 (in half seconds)
DefaultIntervalSec == 2 * 10

\* max_width if max_width is not None else 512
DefaultMaxWidth == 512

VideoTools == {"summarize_video", "analyze_video_with_prompt"}

\* A number given as a number (in half seconds).
Num(h) == <<"num", h>>

\* A number given as a string.
Str(t) == <<"str", t>>

\* float(x) of a string: the value in half seconds, None where float raises
\* ValueError.
ParseFloat(t) ==
    CASE t = "0" -> Some(0)
      [] t = "1.5" -> Some(3)
      [] t = "2" -> Some(2 * 2)
      [] t = "2.0" -> Some(2 * 2)
      [] OTHER -> None

\* float(x): a number keeps its value, a string is parsed.
Float(x) == IF x[1] = "num" THEN Some(x[2]) ELSE ParseFloat(x[2])

\* if x is not None: x = float(x)
Converted(x) == IF x = None THEN None ELSE Float(x[1])

\* float(x) raises ValueError
ConversionRaises(x) == x # None /\ Float(x[1]) = None

\* The arguments a client may give to a tool.
ToolArguments ==
    [start_time : {None, Some(Num(0)), Some(Num(2)), Some(Str("1.5"))},
     end_time : {None, Some(Num(2 * 2)), Some(Str("2.0")), Some(Str("soon"))},
     interval_sec : {None, Some(Num(2 * 2)), Some(Str("2"))},
     max_width : {None, Some(DefaultMaxWidth \div 2)}]

NoToolLocals ==
    [start_time |-> None, end_time |-> None, interval_sec |-> None,
     max_width |-> None]

NoOutcome == [status |-> "none"]

ToolCalls ==
    [name : VideoTools, given : ToolArguments, tpc : {"called"},
     locals : {NoToolLocals}, outcome : {NoOutcome}]

\* The parameters of the core function a tool delegates to
\* (summarizer.py lines 20 and 101).
CoreParameters(name) ==
    IF name = "summarize_video"
    THEN {"video_path", "style", "start_time", "end_time"}
    ELSE {"video_path", "custom_prompt", "start_time", "end_time"}

\* The keyword arguments of the delegating call (server.py lines 48 and 85).
KeywordsPassed(name) ==
    IF name = "summarize_video"
    THEN {"style", "start_time", "end_time", "interval_sec", "max_width"}
    ELSE {"start_time", "end_time", "interval_sec", "max_width"}

\* The sampling the core function starts: extract_keyframes(video_path,
\* start_time=start_time, end_time=end_time), with the sampler's own
\* defaults interval_sec=10 and max_width=512.
CoreSampling(l) ==
    [status |-> "sampling", start_time |-> l.start_time,
     end_time |-> l.end_time, interval_sec |-> 2 * 10,
     max_width |-> Some(512)]

\* start_time, end_time, interval_sec = float(...) where given
ToolConvert ==
    /\ tool.name \in VideoTools
    /\ tool.tpc = "called"
    /\ ~ConversionRaises(tool.given.start_time)
    /\ ~ConversionRaises(tool.given.end_time)
    /\ ~ConversionRaises(tool.given.interval_sec)
    /\ tool' = [tool EXCEPT
           !.tpc = "converted",
           !.locals = [start_time |-> Converted(tool.given.start_time),
                       end_time |-> Converted(tool.given.end_time),
                       interval_sec |-> Converted(tool.given.interval_sec),
                       max_width |-> tool.given.max_width]]
    /\ UNCHANGED <<sampler, core>>

\* float(...) raises ValueError
ToolConvertFails ==
    /\ tool.name \in VideoTools
    /\ tool.tpc = "called"
    /\ \/ ConversionRaises(tool.given.start_time)
       \/ ConversionRaises(tool.given.end_time)
       \/ ConversionRaises(tool.given.interval_sec)
    /\ tool' = [tool EXCEPT
           !.tpc = "raised",
           !.outcome = [status |-> "raised", kind |-> "ValueError",
                        unexpected |-> {}]]
    /\ UNCHANGED <<sampler, core>>

\* Use defaults if not specified
ToolDefaults ==
    /\ tool.name \in VideoTools
    /\ tool.tpc = "converted"
    /\ tool' = [tool EXCEPT
           !.tpc = "defaulted",
           !.locals.interval_sec =
               IF @ = None THEN Some(DefaultIntervalSec) ELSE @,
           !.locals.max_width =
               IF @ = None THEN Some(DefaultMaxWidth) ELSE @]
    /\ UNCHANGED <<sampler, core>>

\* return summarize_video_core(..., interval_sec=interval_sec,
\* max_width=max_width): Python binds the keywords to the parameters of the
\* core function and raises TypeError for a keyword it does not have.
ToolDelegate ==
    /\ tool.name \in VideoTools
    /\ tool.tpc = "defaulted"
    /\ LET unexpected == KeywordsPassed(tool.name) \ CoreParameters(tool.name)
       IN  IF unexpected = {}
           THEN tool' = [tool EXCEPT !.tpc = "delegated",
                                     !.outcome = CoreSampling(tool.locals)]
           ELSE tool' = [tool EXCEPT
                    !.tpc = "raised",
                    !.outcome = [status |-> "raised", kind |-> "TypeError",
                                 unexpected |-> unexpected]]
    /\ UNCHANGED <<sampler, core>>

ServerInit ==
    /\ SamplerIdle
    /\ job = NoJob
    /\ opc = "idle"
    /\ prompt = ""
    /\ attempts = <<>>
    /\ result = NoResult
    /\ tool \in ToolCalls

ServerNext ==
    \/ ToolConvert
    \/ ToolConvertFails
    \/ ToolDefaults
    \/ ToolDelegate

ServerSpec == ServerInit /\ [][ServerNext]_vars

\* The tool call has ended, and not by refusing a string that is no number.
ToolEnded ==
    /\ tool.tpc \in {"raised", "delegated"}
    /\ ~(tool.outcome.status = "raised" /\ tool.outcome.kind = "ValueError")

\* C21: the tools run the sampling with interval 10 s and width 512 when
\* interval_sec and max_width are omitted, with the given values (numbers or
\* numeric strings, unchanged in value) when they are given, and return the
\* text of the core orchestrator.
C21_ToolsSampleWithGivenOrDefault ==
    ToolEnded =>
        /\ tool.outcome.status = "sampling"
        /\ tool.outcome.start_time = Converted(tool.given.start_time)
        /\ tool.outcome.end_time = Converted(tool.given.end_time)
        /\ tool.outcome.interval_sec =
               IF tool.given.interval_sec = None THEN 2 * 10
               ELSE Converted(tool.given.interval_sec)[1]
        /\ tool.outcome.max_width =
               IF tool.given.max_width = None THEN Some(512)
               ELSE tool.given.max_width

\* Every ended tool call has raised TypeError for the keywords interval_sec
\* and max_width.
ToolsRaiseTypeError ==
    ToolEnded =>
        /\ tool.outcome.status = "raised"
        /\ tool.outcome.kind = "TypeError"
        /\ tool.outcome.unexpected = {"interval_sec", "max_width"}

----------------------------------------------------------------------------
\* Properties of the sampler on degenerate sources and windows, stated over
\* Spec.

\* C22: on a source that opens and reports frame rate 0, every call fails
\* with an InvalidWindow error whatever startTime and endTime are (both
\* omitted included): it returns no frames, decodes nothing and divides by
\* nothing.
C22_ZeroFrameRateIsInvalidWindow ==
    (source.openable /\ source.fps = 0) =>
        /\ pc \in {"call", "opened", "validate", "raised"}
        /\ pc = "raised" => error.kind \in InvalidWindowKinds
        /\ error.kind # "ZeroDivision"
        /\ reads = 0
        /\ seeks = 0
        /\ frames = <<>>
        /\ previous.pc \in {"none", "raised"}
        /\ previous.pc = "raised" =>
               /\ previous.error.kind \in InvalidWindowKinds
               /\ previous.frames = <<>>

\* A call with both times omitted has failed on a source of frame rate 0
\* that reports frames.
C22_Witness ==
    /\ source.openable
    /\ source.fps = 0
    /\ source.frame_count > 0
    /\ args.start_time = None
    /\ args.end_time = None
    /\ pc = "raised"
    /\ error.kind = "StartNotBeforeEnd"

\* startTime < 0
NegativeStartViolated == WindowStart < 0

\* endTime > duration (never so for an omitted endTime, which is the
\* duration)
EndBeyondDurationViolated ==
    /\ ~EndOmitted
    /\ IF source.fps > 0
       THEN args.end_time[1] * source.fps > 4 * source.frame_count
       ELSE args.end_time[1] > 0

\* startTime >= endTime
StartNotBeforeEndViolated ==
    IF EndOmitted
    THEN IF source.fps > 0
         THEN WindowStart * source.fps >= 4 * source.frame_count
         ELSE WindowStart >= 0
    ELSE WindowStart >= args.end_time[1]

SeveralViolated ==
    \/ NegativeStartViolated /\ EndBeyondDurationViolated
    \/ NegativeStartViolated /\ StartNotBeforeEndViolated
    \/ EndBeyondDurationViolated /\ StartNotBeforeEndViolated

\* C23: a window violating several validity conditions at once is reported
\* with one error, that of the first violated check in the order negative
\* start, end beyond the duration, start not before end.
C23_FirstViolatedCheckReported ==
    (source.openable /\ SeveralViolated) =>
        /\ pc \in {"call", "opened", "validate", "raised"}
        /\ pc = "raised" =>
               error.kind =
                   IF NegativeStartViolated THEN "NegativeStart"
                   ELSE "EndExceedsDuration"
        /\ previous.pc = "raised" => previous.error = error \/ pc # "raised"

\* A start of -0.5 s with an end beyond the duration has been reported as a
\* negative start.
C23_Witness ==
    /\ source.openable
    /\ WindowStart = -1
    /\ EndBeyondDurationViolated
    /\ pc = "raised"
    /\ error.kind = "NegativeStart"

\* A negative start at or after a negative end has been reported as a
\* negative start.
C23_NegativeStartNotBeforeEndReached ==
    /\ source.openable
    /\ NegativeStartViolated
    /\ StartNotBeforeEndViolated
    /\ ~EndBeyondDurationViolated
    /\ pc = "raised"
    /\ error.kind = "NegativeStart"

\* A valid window on an openable source, sampled with a step of at least
\* one frame.
ValidWindowWithStep == source.openable /\ WindowValid /\ RawFrameStep >= 1

SuccessfulReads == reads - Cardinality(failedReads)

\* The loop's decodes stay within the window: at most endFrame - startFrame
\* + 1 successful ones and one failed one, none beyond endFrame, and at most
\* floor((endFrame - startFrame) / frameStep) + 1 frames emitted.
DecodesWithinWindow ==
    (ValidWindowWithStep /\ seeks >= 1) =>
        /\ SuccessfulReads <= WindowEndFrame - WindowStartFrame + 1
        /\ Cardinality(failedReads) <= 1
        /\ reads <= WindowEndFrame - WindowStartFrame + 2
        /\ pos <= WindowEndFrame + 1
        /\ Len(frames) <=
               (WindowEndFrame - WindowStartFrame) \div RawFrameStep + 1

\* Every emitted index is below the frame count the source reports.
EmittedBelowFrameCount ==
    ValidWindowWithStep => \A i \in Emitted : i < source.frame_count

\* C24: for a valid window and a frame step of at least 1 the sampling loop
\* ends within endFrame - startFrame + 1 successful decodes and one failed
\* decode, decodes no index beyond endFrame, emits only indices below
\* frameCount, and emits at most floor((endFrame - startFrame) / frameStep)
\* + 1 frames.
C24_LoopBounded == DecodesWithinWindow /\ EmittedBelowFrameCount

\* The decoder delivers no more frames than the source reports.
HonestFrameCount == source.decodable <= source.frame_count

\* With a decoder that delivers no more frames than reported, every emitted
\* index is below the frame count.
EmittedBelowHonestFrameCount == HonestFrameCount => EmittedBelowFrameCount

\* The loop has ended after decoding every frame of a window.
WholeWindowDecodedReached ==
    /\ ValidWindowWithStep
    /\ pc = "returned"
    /\ failedReads = {}
    /\ SuccessfulReads = WindowEndFrame - WindowStartFrame + 1
    /\ WindowEndFrame > WindowStartFrame

====
